---- MODULE Spec2Model ----
(***************************************************************************)
(* Verification model of the Locate backend (lmsilo-locate).               *)
(*                                                                         *)
(* The subsystems are modelled each with its own specification:            *)
(*                                                                         *)
(*   Spec     the job queue: api/jobs.py (create_job, delete_job), the     *)
(*            Celery task workers/tasks.py (process_geolocation), the      *)
(*            per-record prediction of llocale/predictor.py, and the       *)
(*            persisted Job rows of models/job.py.                         *)
(*   SpecMgr  the model residency manager services/model_manager.py        *)
(*            (GeoClipModelManager, get_model_manager, get_predictor).     *)
(*   SpecBoot the first calls into the residency manager.                  *)
(*   SpecInfer  batch inference: Core/api_service.py (infer) driving       *)
(*            predict_records of llocale/predictor.py over a request.      *)
(*                                                                         *)
(* Optional values (Python None / a value) are encoded as sequences of     *)
(* length 0 / 1.                                                           *)
(***************************************************************************)
EXTENDS Integers, Sequences, FiniteSets, TLC

VARIABLES
    \* ---- job queue subsystem ----
    db,          \* locate_jobs table: job id -> committed Job row
    files,       \* paths present in the upload directory
    queue,       \* Celery "locate" queue: sequence of job ids
    nextId,      \* number of job ids issued so far + 1 (uuid4 is fresh)
    resent,      \* number of duplicate deliveries so far
    clock,       \* datetime.utcnow(): strictly increasing reading
    pc,          \* worker -> position in _process_geolocation_async
    wjob,        \* worker -> job_id argument of the running task
    snap,        \* worker -> Job attributes as last loaded/committed by the session
    cur,         \* worker -> Job attributes as currently assigned in the session
    predictor,   \* worker -> tasks._predictor (per worker process)
    \* ---- model residency manager subsystem ----
    manager,     \* model_manager._manager: the global singleton reference
    mgrs,        \* manager id -> GeoClipModelManager fields
    spc,         \* manager id -> position of its cleanup thread
    wake,        \* manager id -> time at which the cleanup thread's sleep(60) ends
    tpc,         \* caller thread -> position in its call
    top,         \* caller thread -> the call it runs ("get" or "shutdown")
    tmgr,        \* caller thread -> the manager get_model_manager() returned
    handle,      \* caller thread -> the engine it was handed and still uses
    now,         \* time.time(), in sweep periods
    hist,        \* manager id -> history of its acquisitions (not program state)
    \* ---- batch inference (POST /infer) ----
    records,     \* the InputRecords built from the request
    skip,        \* the request's skip_missing flag
    outcomes,    \* the PredictionOutcomes predict_records has yielded so far
    answers,     \* what the engine answered for each of them (not program state)
    \* ---- the backend service's /infer handler ----
    items,       \* request.items: the paths of the request
    seen,        \* number of items the validation loop has consumed
    valid,       \* validated_paths
    rpc,         \* position of the handler: validate, predict, rejected, done
    \* ---- a call through with_timeout ----
    call,        \* the wrapper's locals, the target thread and elapsed time
    \* ---- job creation, statement by statement ----
    sub,         \* the creation handlers in progress, and what they did so far
    \* ---- engine constructions ----
    loads,       \* engines built so far in each worker process (not program state)
    lru          \* the /infer service's predictor cache and its callers

jobVars == <<db, files, queue, nextId, resent, clock, pc, wjob, snap, cur,
             predictor>>

mgrVars == <<manager, mgrs, spc, wake, tpc, top, tmgr, handle, now, hist>>

inferVars == <<records, skip, outcomes, answers, items, seen, valid, rpc>>

extVars == <<call, sub, loads, lru>>

vars == <<jobVars, mgrVars, inferVars, extVars>>

----------------------------------------------------------------------------
\* Bounds of the model.
MaxJobs == 2          \* create_job calls
MaxContents == 2      \* distinct uploaded file contents
MaxResend == 1        \* duplicate deliveries of a task message
NumWorkers == 2       \* Celery worker processes

Workers == 1..NumWorkers
Contents == 1..MaxContents

None == <<>>
Some(x) == <<x>>
IsSet(o) == o # <<>>

----------------------------------------------------------------------------
\* models/job.py

PENDING == "pending"
PROCESSING == "processing"
COMPLETED == "completed"
FAILED == "failed"

JobStatus == {PENDING, PROCESSING, COMPLETED, FAILED}

\* A Job row as the column defaults leave it (error, results, started_at and
\* completed_at are nullable and default to NULL).
Job(path, status) ==
    [file_path |-> path, status |-> status, error |-> None, results |-> None,
     started_at |-> None, completed_at |-> None]

\* The row of a worker that runs no task.
NoRow == Job("", PENDING)

----------------------------------------------------------------------------
\* api/jobs.py

\* f"{file_hash}{ext}" under the upload directory: equal contents give the same path.
UploadPath(c) == "/app/uploads/" \o ToString(c) \o ".jpg"

\* create_job: store the upload, commit a pending row, enqueue the task.
CreateJob(c) ==
    /\ nextId <= MaxJobs
    /\ files' = files \cup {UploadPath(c)}
    /\ db' = [j \in DOMAIN db \cup {nextId} |->
                IF j = nextId THEN Job(UploadPath(c), PENDING) ELSE db[j]]
    /\ queue' = Append(queue, nextId)
    /\ nextId' = nextId + 1
    /\ UNCHANGED <<resent, clock, pc, wjob, snap, cur, predictor>>
    /\ UNCHANGED <<mgrVars, inferVars, extVars>>

\* delete_job: remove the file if it exists, then the row.
DeleteJob(j) ==
    /\ j \in DOMAIN db
    /\ files' = files \ {db[j].file_path}
    /\ db' = [k \in DOMAIN db \ {j} |-> db[k]]
    /\ UNCHANGED <<queue, nextId, resent, clock, pc, wjob, snap, cur, predictor>>
    /\ UNCHANGED <<mgrVars, inferVars, extVars>>

----------------------------------------------------------------------------
\* llocale/predictor.py

\* What the external collaborators may answer.  The engine (GeoCLIP.predict)
\* raises, or returns coordinates and probabilities; the place resolver
\* (reverse_geocode.get) raises, or returns a mapping.
Coord1 == <<48, 2>>
Coord2 == <<40, -74>>

EngineOutputs ==
    { [raises |-> TRUE,  gps |-> <<>>, probs |-> <<>>],
      [raises |-> FALSE, gps |-> <<>>, probs |-> <<>>],
      [raises |-> FALSE, gps |-> <<Coord1>>, probs |-> <<7>>],
      [raises |-> FALSE, gps |-> <<Coord1, Coord2>>, probs |-> <<7, 4>>],
      [raises |-> FALSE, gps |-> <<Coord2, Coord1>>, probs |-> <<4, 7>>],
      [raises |-> FALSE, gps |-> <<Coord1, Coord2>>, probs |-> <<7>>],
      [raises |-> FALSE, gps |-> <<Coord1>>, probs |-> <<>>] }

NoPlace == [city |-> "", state |-> "", county |-> "", country |-> ""]
Paris == [city |-> "Paris", state |-> "Ile-de-France", county |-> "", country |-> "FR"]

ResolverOutputs ==
    { [raises |-> TRUE,  place |-> NoPlace],
      [raises |-> FALSE, place |-> NoPlace],
      [raises |-> FALSE, place |-> Paris] }

\* reverse_lookup: the resolver's mapping, or the empty mapping when it raises.
reverse_lookup(geo) == IF geo.raises THEN NoPlace ELSE geo.place

Min(a, b) == IF a <= b THEN a ELSE b

\* (Mutation of Candidates: ranks counted from 0.)
CandidatesFromZero(gps, probs, geo) ==
    [i \in 1..Min(Len(gps), Len(probs)) |->
        LET location == reverse_lookup(geo) IN
        [rank |-> i - 1, latitude |-> gps[i][1], longitude |-> gps[i][2],
         probability |-> probs[i],
         city |-> location.city, state |-> location.state,
         county |-> location.county, country |-> location.country]]

\* The candidates built from zip(gps_predictions, probabilities), ranked from 1.
Candidates(gps, probs, geo) ==
    [i \in 1..Min(Len(gps), Len(probs)) |->
        LET location == reverse_lookup(geo) IN
        [rank |-> i, latitude |-> gps[i][1], longitude |-> gps[i][2],
         probability |-> probs[i],
         city |-> location.city, state |-> location.state,
         county |-> location.county, country |-> location.country]]

\* PredictionOutcome, and the exception a record may raise out of the generator.
Outcome(record, preds, warns, err) ==
    [raised |-> FALSE, exc |-> "", record |-> record,
     predictions |-> preds, warnings |-> warns, error |-> err]
Raised(msg) ==
    [raised |-> TRUE, exc |-> msg, predictions |-> <<>>, warnings |-> <<>>, error |-> None]

AttributeErrorMsg == "'str' object has no attribute 'exists'"
MissingFileMsg(path) == "File does not exist: " \o path
NoModelPredictionsMsg == "Model returned no predictions."
EngineErrorMsg == "backend failure"
PredictionFailedMsg == "Prediction failed: " \o EngineErrorMsg

\* (Mutation of RecordOutcome: skip_missing is ignored.)
RecordOutcomeNeverSkips(record, fs, skip_missing, eng, geo) ==
    IF ~record.is_path THEN Raised(AttributeErrorMsg)
    ELSE IF record.path \notin fs
    THEN Outcome(record, <<>>, <<>>, Some(MissingFileMsg(record.path)))
    ELSE IF eng.raises THEN Outcome(record, <<>>, <<>>, Some(PredictionFailedMsg))
    ELSE IF eng.gps = <<>> THEN Outcome(record, <<>>, <<>>, Some(NoModelPredictionsMsg))
    ELSE Outcome(record, Candidates(eng.gps, eng.probs, geo), <<>>, None)

\* One iteration of predict_records for a record.  record.path is a pathlib.Path
\* or a str; only a Path has exists().
RecordOutcome(record, fs, skip_missing, eng, geo) ==
    IF ~record.is_path THEN Raised(AttributeErrorMsg)
    ELSE IF record.path \notin fs THEN
        IF skip_missing
        THEN Outcome(record, <<>>, <<MissingFileMsg(record.path)>>, None)
        ELSE Outcome(record, <<>>, <<>>, Some(MissingFileMsg(record.path)))
    ELSE IF eng.raises THEN Outcome(record, <<>>, <<>>, Some(PredictionFailedMsg))
    ELSE IF eng.gps = <<>> THEN Outcome(record, <<>>, <<>>, Some(NoModelPredictionsMsg))
    ELSE Outcome(record, Candidates(eng.gps, eng.probs, geo), <<>>, None)

----------------------------------------------------------------------------
\* workers/tasks.py

NoPredictionsMsg == "No predictions generated"
StaleDataMsg == "UPDATE statement on table 'locate_jobs' expected to update 1 row(s); 0 were matched."
ConstructionErrorMsg == "CUDA requested but no compatible GPU is available."
DeviceLabel == "cpu"

Terminal == {COMPLETED, FAILED}

\* The record the task builds: path=job.file_path, the str read from the
\* String(512) column, passed on as it is.
TaskRecord(job) == [index |-> 1, path |-> job.file_path, is_path |-> FALSE]

\* session.commit(): the UPDATE writes the attributes whose value differs from
\* what the session loaded or last wrote; it matches no row when the row is gone.
Flushed(row, w, c) == [f \in DOMAIN row |-> IF c[f] # snap[w][f] THEN c[f] ELSE row[f]]
CommitRaises(w, c) == wjob[w] \notin DOMAIN db /\ c # snap[w]
Committed(w, c) ==
    IF wjob[w] \in DOMAIN db
    THEN [db EXCEPT ![wjob[w]] = Flushed(db[wjob[w]], w, c)]
    ELSE db

\* A duplicate delivery of a task message (the task is invoked again for an id
\* that was issued before).
Redeliver(j) ==
    /\ j \in 1..(nextId - 1)
    /\ resent < MaxResend
    /\ resent' = resent + 1
    /\ queue' = Append(queue, j)
    /\ UNCHANGED <<db, files, nextId, clock, pc, wjob, snap, cur, predictor>>
    /\ UNCHANGED <<mgrVars, inferVars, extVars>>

\* (Mutation of Selected: an absent row is taken for an empty job.)
SelectedOrBlank(j) == IF j \in DOMAIN db THEN Some(db[j]) ELSE Some(NoRow)

\* select(Job).where(Job.id == job_id), scalar_one_or_none()
Selected(j) == IF j \in DOMAIN db THEN Some(db[j]) ELSE None

\* process_geolocation picked up by worker w: select the job; return if absent.
Start(w) ==
    /\ pc[w] = "idle"
    /\ queue # <<>>
    /\ LET j == Head(queue)
           job == Selected(j)
       IN
        /\ queue' = Tail(queue)
        /\ IF job # None
           THEN /\ pc' = [pc EXCEPT ![w] = "begin"]
                /\ wjob' = [wjob EXCEPT ![w] = j]
                /\ snap' = [snap EXCEPT ![w] = job[1]]
                /\ cur' = [cur EXCEPT ![w] = job[1]]
           ELSE UNCHANGED <<pc, wjob, snap, cur>>
    /\ UNCHANGED <<db, files, nextId, resent, clock, predictor>>
    /\ UNCHANGED <<mgrVars, inferVars, extVars>>

\* except Exception as e: status FAILED, error str(e); the audit call follows.
ExceptBranch(w, c, msg) ==
    /\ cur' = [cur EXCEPT ![w] = [c EXCEPT !.status = FAILED, !.error = Some(msg)]]
    /\ pc' = [pc EXCEPT ![w] = "audit"]

\* status PROCESSING, started_at, commit.
BeginProcessing(w) ==
    /\ pc[w] = "begin"
    /\ clock' = clock + 1
    /\ LET c == [cur[w] EXCEPT !.status = PROCESSING, !.started_at = Some(clock)] IN
        /\ db' = Committed(w, c)
        /\ IF CommitRaises(w, c)
           THEN /\ ExceptBranch(w, c, StaleDataMsg)
                /\ UNCHANGED snap
           ELSE /\ cur' = [cur EXCEPT ![w] = c]
                /\ snap' = [snap EXCEPT ![w] = c]
                /\ pc' = [pc EXCEPT ![w] = "acquire"]
    /\ UNCHANGED <<files, queue, nextId, resent, wjob, predictor>>
    /\ UNCHANGED <<mgrVars, inferVars, extVars>>

\* (Mutation of IsCached: the cache is never consulted.)
IsCachedNever(w) == FALSE

\* if _predictor is None: ... (negated)
IsCached(w) == predictor[w] # None

\* tasks.get_predictor: the cached engine, or a construction that may raise.
GetPredictor(w) ==
    /\ pc[w] = "acquire"
    /\ IF IsCached(w)
       THEN /\ pc' = [pc EXCEPT ![w] = "predict"]
            /\ UNCHANGED <<cur, predictor, loads>>
       ELSE \E ok \in BOOLEAN :
            IF ok
            THEN /\ predictor' = [predictor EXCEPT ![w] = Some(DeviceLabel)]
                 /\ loads' = [loads EXCEPT ![w] = @ + 1]
                 /\ pc' = [pc EXCEPT ![w] = "predict"]
                 /\ UNCHANGED cur
            ELSE /\ ExceptBranch(w, cur[w], ConstructionErrorMsg)
                 /\ UNCHANGED <<predictor, loads>>
    /\ UNCHANGED <<db, files, queue, nextId, resent, clock, wjob, snap>>
    /\ UNCHANGED <<call, sub, lru>>
    /\ UNCHANGED <<mgrVars, inferVars>>

\* The serialisable form of the predictions, with location_summary.
Join(parts) ==
    LET nonempty == SelectSeq(parts, LAMBDA s : s # "")
        F[i \in 0..Len(nonempty)] ==
            IF i = 0 THEN ""
            ELSE IF i = 1 THEN nonempty[1]
            ELSE F[i - 1] \o ", " \o nonempty[i]
    IN  F[Len(nonempty)]
location_summary(p) == Join(<<p.city, p.state, p.county, p.country>>)
Serialised(preds) ==
    [i \in 1..Len(preds) |->
        [rank |-> preds[i].rank, latitude |-> preds[i].latitude,
         longitude |-> preds[i].longitude, probability |-> preds[i].probability,
         city |-> preds[i].city, state |-> preds[i].state,
         county |-> preds[i].county, country |-> preds[i].country,
         location_summary |-> location_summary(preds[i])]]

\* list(predictor.predict_records([record], skip_missing=False)) and the
\* branches on its first outcome.
Predict(w) ==
    /\ pc[w] = "predict"
    /\ \E eng \in EngineOutputs, geo \in ResolverOutputs :
        LET o == RecordOutcome(TaskRecord(cur[w]), files, FALSE, eng, geo) IN
        IF o.raised
        THEN ExceptBranch(w, cur[w], o.exc)
        ELSE /\ pc' = [pc EXCEPT ![w] = "audit"]
             /\ IF o.predictions # <<>>
                THEN cur' = [cur EXCEPT ![w].results =
                                 Some([predictions |-> Serialised(o.predictions),
                                       device |-> predictor[w][1]]),
                                        ![w].status = COMPLETED]
                ELSE cur' = [cur EXCEPT ![w].status = FAILED,
                                        ![w].error = Some(NoPredictionsMsg)]
    /\ UNCHANGED <<db, files, queue, nextId, resent, clock, wjob, snap, predictor>>
    /\ UNCHANGED <<mgrVars, inferVars, extVars>>

\* _log_audit_event: when the shared audit model is importable and the insert
\* goes through, session.commit() also flushes the job; every failure is swallowed.
LogAuditEvent(w) ==
    /\ pc[w] = "audit"
    /\ pc' = [pc EXCEPT ![w] = "finally"]
    /\ \E audited \in BOOLEAN :
        IF audited /\ ~CommitRaises(w, cur[w])
        THEN /\ db' = Committed(w, cur[w])
             /\ snap' = [snap EXCEPT ![w] = cur[w]]
        ELSE UNCHANGED <<db, snap>>
    /\ UNCHANGED <<files, queue, nextId, resent, clock, wjob, cur, predictor>>
    /\ UNCHANGED <<mgrVars, inferVars, extVars>>

\* finally: completed_at, commit.  A failing commit propagates out of the task.
Finally(w) ==
    /\ pc[w] = "finally"
    /\ clock' = clock + 1
    /\ LET c == [cur[w] EXCEPT !.completed_at = Some(clock)] IN
        db' = Committed(w, c)
    /\ pc' = [pc EXCEPT ![w] = "idle"]
    /\ wjob' = [wjob EXCEPT ![w] = 0]
    /\ snap' = [snap EXCEPT ![w] = NoRow]
    /\ cur' = [cur EXCEPT ![w] = NoRow]
    /\ UNCHANGED <<files, queue, nextId, resent, predictor>>
    /\ UNCHANGED <<mgrVars, inferVars, extVars>>

\* celery_app.py task_time_limit=600: the hard limit kills the worker process
\* wherever the task is; the pool replaces it with a fresh process.
Kill(w) ==
    /\ pc[w] \in {"acquire", "predict"}
    /\ pc' = [pc EXCEPT ![w] = "idle"]
    /\ wjob' = [wjob EXCEPT ![w] = 0]
    /\ snap' = [snap EXCEPT ![w] = NoRow]
    /\ cur' = [cur EXCEPT ![w] = NoRow]
    /\ predictor' = [predictor EXCEPT ![w] = None]
    /\ loads' = [loads EXCEPT ![w] = 0]
    /\ UNCHANGED <<db, files, queue, nextId, resent, clock>>
    /\ UNCHANGED <<call, sub, lru>>
    /\ UNCHANGED <<mgrVars, inferVars>>

----------------------------------------------------------------------------
\* services/model_manager.py

\* Bounds of the manager model.  Time is counted in sweep periods.
NumThreads == 2       \* threads calling into the module
MaxTime == 4          \* last reading of time.time()
IdleTimeout == 2      \* idle_timeout given to GeoClipModelManager

\* time.sleep(60) in cleanup_loop: one sweep period.
SweepInterval == 1

Threads == 1..NumThreads
Managers == DOMAIN mgrs

\* GeoClipModelManager.__init__
NewManager == [predictor |-> None, last_used |-> 0, lock |-> 0, running |-> TRUE]
NewHistory ==
    [prevStamp |-> 0, built |-> 0, evicted |-> FALSE, loaded |-> FALSE,
     idled |-> FALSE, swept |-> FALSE, failed |-> FALSE,
     await |-> [t \in Threads |-> 0]]

\* The engines some reference keeps alive.
LiveEngines ==
    {mgrs[m].predictor[1] : m \in {k \in Managers : mgrs[k].predictor # None}}
        \cup {handle[t][1] : t \in {u \in Threads : handle[u] # None}}

\* GeoClipPredictor(device=...) allocates an engine no live reference names.
NewEngine == CHOOSE e \in 1..(2 * NumThreads + 1) : e \notin LiveEngines

----------------------------------------------------------------------------
\* A thread calls get_predictor() or get_model_manager().shutdown(); the first
\* statement of get_model_manager reads _manager.
Call(t, op) ==
    /\ tpc[t] = "idle"
    /\ tpc' = [tpc EXCEPT ![t] = IF manager = None THEN "make" ELSE "ret"]
    /\ top' = [top EXCEPT ![t] = op]
    /\ UNCHANGED <<manager, mgrs, spc, wake, tmgr, handle, now, hist>>
    /\ UNCHANGED <<jobVars, inferVars, extVars>>

\* get_model_manager: _manager = GeoClipModelManager(), which starts its cleanup thread.
GmmMake(t) ==
    /\ tpc[t] = "make"
    /\ LET k == Cardinality(Managers) + 1 IN
        /\ mgrs' = [m \in Managers \cup {k} |-> IF m = k THEN NewManager ELSE mgrs[m]]
        /\ hist' = [m \in Managers \cup {k} |-> IF m = k THEN NewHistory ELSE hist[m]]
        /\ spc' = [m \in Managers \cup {k} |-> IF m = k THEN "start" ELSE spc[m]]
        /\ wake' = [m \in Managers \cup {k} |-> IF m = k THEN 0 ELSE wake[m]]
        /\ manager' = Some(k)
    /\ tpc' = [tpc EXCEPT ![t] = "ret"]
    /\ UNCHANGED <<top, tmgr, handle, now>>
    /\ UNCHANGED <<jobVars, inferVars, extVars>>

\* A construction is in progress on manager m.
Constructing(m) == \E u \in Threads : tpc[u] = "construct" /\ tmgr[u] = m

\* History: the callers that arrived during a construction learn how it ended
\* (the engine it built, or 0 when it raised).
Ended(h, e) == [h EXCEPT !.await = [u \in Threads |-> IF h.await[u] = -1 THEN e ELSE h.await[u]]]

\* get_model_manager: return _manager, and the method call on it.
GmmReturn(t) ==
    /\ tpc[t] = "ret"
    /\ tmgr' = [tmgr EXCEPT ![t] = manager[1]]
    /\ tpc' = [tpc EXCEPT ![t] = IF top[t] = "get" THEN "enter" ELSE "stop"]
    /\ top' = [top EXCEPT ![t] = "get"]
    /\ hist' = [hist EXCEPT ![manager[1]].await[t] =
                    IF top[t] = "get" /\ Constructing(manager[1]) THEN -1 ELSE 0]
    /\ UNCHANGED <<manager, mgrs, spc, wake, handle, now>>
    /\ UNCHANGED <<jobVars, inferVars, extVars>>

\* (Mutation of Expired: the threshold itself counts as expired.)
ExpiredAtThreshold(m) ==
    /\ mgrs[m].predictor # None
    /\ mgrs[m].last_used > 0
    /\ now - mgrs[m].last_used >= IdleTimeout

\* _check_timeout's condition.
Expired(m) ==
    /\ mgrs[m].predictor # None
    /\ mgrs[m].last_used > 0
    /\ now - mgrs[m].last_used > IdleTimeout

\* (Mutation of Unloaded: the engine reference is kept.)
UnloadedKeepsEngine(mgr) == [mgr EXCEPT !.last_used = 0]

\* _unload
Unloaded(mgr) == [mgr EXCEPT !.predictor = None, !.last_used = 0]

\* (Mutation of LockFree: the lock is not taken.)
NoLock(m) == m \in Managers

\* with self._lock: the lock is free (no thread re-enters it).
LockFree(m) == mgrs[m].lock = 0

\* (Mutation of Released: the lock stays held.)
ReleasedNever(mgr) == mgr

\* Leaving the with self._lock block, by return or by an exception.
Released(mgr) == [mgr EXCEPT !.lock = 0]

\* get_predictor: take the lock, stamp _last_used, test _predictor.
Stamped(mgr, t) == [mgr EXCEPT !.lock = t, !.last_used = now]

Enter(t) ==
    /\ tpc[t] = "enter"
    /\ LET m == tmgr[t]
           h == hist[m]
           idle == h.prevStamp > 0 /\ now - h.prevStamp > IdleTimeout
       IN  /\ LockFree(m)
           /\ mgrs' = [mgrs EXCEPT ![m] = Stamped(mgrs[m], t)]
           /\ tpc' = [tpc EXCEPT ![t] =
                        IF mgrs[m].predictor = None THEN "construct" ELSE "return"]
           /\ hist' = [hist EXCEPT ![m] =
                        [h EXCEPT !.prevStamp = now,
                                  !.built = IF idle \/ h.prevStamp = 0 THEN 0 ELSE h.built,
                                  !.idled = idle,
                                  !.swept = FALSE,
                                  !.await[t] = 0]]
    /\ UNCHANGED <<manager, spc, wake, top, tmgr, handle, now>>
    /\ UNCHANGED <<jobVars, inferVars, extVars>>

\* get_predictor: GeoClipPredictor(device=self._device) under the lock; it may raise,
\* which leaves _predictor None and releases the lock.
Construct(t) ==
    /\ tpc[t] = "construct"
    /\ LET m == tmgr[t] IN
       \E ok \in BOOLEAN :
        IF ok
        THEN /\ mgrs' = [mgrs EXCEPT ![m].predictor = Some(NewEngine)]
             /\ hist' = [hist EXCEPT ![m] = Ended([hist[m] EXCEPT !.built = @ + 1], NewEngine)]
             /\ tpc' = [tpc EXCEPT ![t] = "return"]
             /\ UNCHANGED tmgr
        ELSE /\ mgrs' = [mgrs EXCEPT ![m] = Released(mgrs[m])]
             /\ hist' = [hist EXCEPT ![m] = Ended([hist[m] EXCEPT !.loaded = FALSE,
                                                                  !.evicted = FALSE,
                                                                  !.failed = TRUE], 0)]
             /\ tpc' = [tpc EXCEPT ![t] = "idle"]
             /\ tmgr' = [tmgr EXCEPT ![t] = 0]
    /\ UNCHANGED <<manager, spc, wake, top, handle, now>>
    /\ UNCHANGED <<jobVars, inferVars, extVars>>

\* get_predictor: return self._predictor, leaving the with block.
Return(t) ==
    /\ tpc[t] = "return"
    /\ LET m == tmgr[t] IN
        /\ handle' = [handle EXCEPT ![t] = mgrs[m].predictor]
        /\ mgrs' = [mgrs EXCEPT ![m] = Released(mgrs[m])]
        /\ hist' = [hist EXCEPT ![m].loaded = TRUE, ![m].evicted = FALSE]
    /\ tpc' = [tpc EXCEPT ![t] = "using"]
    /\ tmgr' = [tmgr EXCEPT ![t] = 0]
    /\ UNCHANGED <<manager, spc, wake, top, now>>
    /\ UNCHANGED <<jobVars, inferVars, extVars>>

\* The caller is done with the engine it was handed.
Release(t) ==
    /\ tpc[t] = "using"
    /\ handle' = [handle EXCEPT ![t] = None]
    /\ tpc' = [tpc EXCEPT ![t] = "idle"]
    /\ UNCHANGED <<manager, mgrs, spc, wake, top, tmgr, now, hist>>
    /\ UNCHANGED <<jobVars, inferVars, extVars>>

\* shutdown: self._running = False
ShutdownStop(t) ==
    /\ tpc[t] = "stop"
    /\ mgrs' = [mgrs EXCEPT ![tmgr[t]].running = FALSE]
    /\ tpc' = [tpc EXCEPT ![t] = "stopped"]
    /\ UNCHANGED <<manager, spc, wake, top, tmgr, handle, now, hist>>
    /\ UNCHANGED <<jobVars, inferVars, extVars>>

\* shutdown: with self._lock: if self._predictor: self._unload()
ShutdownUnload(t) ==
    /\ tpc[t] = "stopped"
    /\ LET m == tmgr[t] IN
        /\ LockFree(m)
        /\ IF mgrs[m].predictor # None
           THEN /\ mgrs' = [mgrs EXCEPT ![m] = Unloaded(mgrs[m])]
                /\ hist' = [hist EXCEPT ![m].evicted = TRUE, ![m].built = 0,
                                        ![m].failed = FALSE]
           ELSE UNCHANGED <<mgrs, hist>>
    /\ tpc' = [tpc EXCEPT ![t] = "idle"]
    /\ tmgr' = [tmgr EXCEPT ![t] = 0]
    /\ UNCHANGED <<manager, spc, wake, top, handle, now>>
    /\ UNCHANGED <<jobVars, inferVars, extVars>>

\* cleanup_loop: while self._running: time.sleep(60)
SweepLoop(m) ==
    /\ spc[m] \in {"start", "loop"}
    /\ IF mgrs[m].running
       THEN /\ spc' = [spc EXCEPT ![m] = "sleep"]
            /\ wake' = [wake EXCEPT ![m] = now + SweepInterval]
       ELSE /\ spc' = [spc EXCEPT ![m] = "done"]
            /\ UNCHANGED wake
    /\ UNCHANGED <<manager, mgrs, tpc, top, tmgr, handle, now, hist>>
    /\ UNCHANGED <<jobVars, inferVars, extVars>>

\* cleanup_loop: the sleep is over; _check_timeout under the lock.
CheckTimeout(m) ==
    /\ spc[m] = "sleep"
    /\ now >= wake[m]
    /\ LockFree(m)
    /\ IF Expired(m)
       THEN /\ mgrs' = [mgrs EXCEPT ![m] = Unloaded(mgrs[m])]
            /\ hist' = [hist EXCEPT ![m].evicted = TRUE, ![m].swept = TRUE,
                                    ![m].failed = FALSE]
       ELSE /\ hist' = [hist EXCEPT ![m].swept = TRUE]
            /\ UNCHANGED mgrs
    /\ spc' = [spc EXCEPT ![m] = "loop"]
    /\ wake' = [wake EXCEPT ![m] = 0]
    /\ UNCHANGED <<manager, tpc, top, tmgr, handle, now>>
    /\ UNCHANGED <<jobVars, inferVars, extVars>>

\* Time passes.
Tick ==
    /\ now < MaxTime
    /\ now' = now + 1
    /\ UNCHANGED <<manager, mgrs, spc, wake, tpc, top, tmgr, handle, hist>>
    /\ UNCHANGED <<jobVars, inferVars, extVars>>

----------------------------------------------------------------------------
\* Core/api_service.py (infer) and predict_records over a batch

MaxBatch == 2         \* items of one /infer request

\* The paths a request may name.
Paths == {UploadPath(c) : c \in Contents}

\* records = [InputRecord(index=i + 1, path=item.path...)]: the paths are
\* pathlib.Path objects, numbered from 1 in request order.
RequestRecords(paths) ==
    [i \in 1..Len(paths) |-> [index |-> i, path |-> paths[i], is_path |-> TRUE]]

Requests == UNION {[1..n -> Paths] : n \in 1..MaxBatch}

\* (Mutation of PredictRecord: the loop stops after an outcome with an error.)
PredictRecordFailFast ==
    /\ Len(outcomes) < Len(records)
    /\ \A i \in DOMAIN outcomes : outcomes[i].error = None
    /\ LET record == records[Len(outcomes) + 1] IN
       \E eng \in EngineOutputs, geo \in ResolverOutputs :
        /\ outcomes' = Append(outcomes,
                            RecordOutcome(record, files, skip, eng, geo))
        /\ answers' = Append(answers,
                            IF record.path \in files THEN Some(eng) ELSE None)
    /\ UNCHANGED <<records, skip, items, seen, valid, rpc>>
    /\ UNCHANGED <<jobVars, mgrVars, extVars>>

\* One iteration of the generator predict_records, driven by list(...): the
\* next record is examined and exactly one outcome is yielded for it.  The
\* engine is asked only for a record whose file exists.
PredictRecord ==
    /\ Len(outcomes) < Len(records)
    /\ LET record == records[Len(outcomes) + 1] IN
       \E eng \in EngineOutputs, geo \in ResolverOutputs :
        /\ outcomes' = Append(outcomes,
                            RecordOutcome(record, files, skip, eng, geo))
        /\ answers' = Append(answers,
                            IF record.path \in files THEN Some(eng) ELSE None)
    /\ UNCHANGED <<records, skip, items, seen, valid, rpc>>
    /\ UNCHANGED <<jobVars, mgrVars, extVars>>

----------------------------------------------------------------------------
\* The /infer endpoint of the backend service (backend/main.py and
\* backend/api_service.py carry the same handler): every item is validated
\* before any record is built.

\* A path whose extension is not an image extension.
TextPath == "/app/uploads/notes.txt"

ItemPaths == Paths \cup {TextPath}

Suffix(p) == IF p = TextPath THEN ".txt" ELSE ".jpg"

ALLOWED_EXTENSIONS == {".jpg", ".jpeg", ".png", ".bmp", ".gif", ".heic", ".webp"}

\* validate_image_path returns the path when it names an existing file with an
\* allowed extension and raises HTTPException otherwise.
ValidImage(p, fs) == p \in fs /\ Suffix(p) \in ALLOWED_EXTENSIONS

ServiceRequests == UNION {[1..n -> ItemPaths] : n \in 1..MaxBatch}

\* (Mutation of Rejects: the handler never re-raises a validation error.)
RejectsNever(p) == FALSE

\* except HTTPException: if not request.skip_missing: raise
Rejects(p) == ~ValidImage(p, files) /\ ~skip

\* One iteration of the validation loop over request.items.
ValidateItem ==
    /\ rpc = "validate"
    /\ seen < Len(items)
    /\ LET p == items[seen + 1] IN
        /\ seen' = seen + 1
        /\ valid' = IF ValidImage(p, files) THEN Append(valid, p) ELSE valid
        /\ rpc' = IF Rejects(p) THEN "rejected" ELSE rpc
    /\ UNCHANGED <<records, skip, outcomes, answers, items>>
    /\ UNCHANGED <<jobVars, mgrVars, extVars>>

\* After the loop: HTTP 400 when nothing was validated, else the records are
\* built from the validated paths, numbered from 1.
BuildRecords ==
    /\ rpc = "validate"
    /\ seen = Len(items)
    /\ IF valid = <<>>
         THEN rpc' = "rejected" /\ records' = records
         ELSE rpc' = "predict" /\ records' = RequestRecords(valid)
    /\ UNCHANGED <<skip, outcomes, answers, items, seen, valid>>
    /\ UNCHANGED <<jobVars, mgrVars, extVars>>

\* return InferenceResponse(...) once list(predict_records(...)) is complete.
Respond ==
    /\ rpc = "predict"
    /\ Len(outcomes) = Len(records)
    /\ rpc' = "done"
    /\ UNCHANGED <<records, skip, outcomes, answers, items, seen, valid>>
    /\ UNCHANGED <<jobVars, mgrVars, extVars>>

----------------------------------------------------------------------------
\* The job queue before any submission, with idle workers.
InitJobs ==
    /\ db = <<>>
    /\ files = {}
    /\ queue = <<>>
    /\ nextId = 1
    /\ resent = 0
    /\ clock = 1
    /\ pc = [w \in Workers |-> "idle"]
    /\ wjob = [w \in Workers |-> 0]
    /\ snap = [w \in Workers |-> NoRow]
    /\ cur = [w \in Workers |-> NoRow]
    /\ predictor = [w \in Workers |-> None]

InitThreads ==
    /\ tpc = [t \in Threads |-> "idle"]
    /\ top = [t \in Threads |-> "get"]
    /\ tmgr = [t \in Threads |-> 0]
    /\ handle = [t \in Threads |-> None]
    /\ now = 1

----------------------------------------------------------------------------
\* test_performance_fixes.py: with_timeout.  Time is counted in ticks.

MaxTimeout == 2       \* largest timeout_seconds given to with_timeout
MaxDelay == 4         \* longest running time of a wrapped function

\* What a wrapped function does: run for delay ticks, then return a value or
\* raise an Exception.
Functions == [delay : 0..MaxDelay, kind : {"returns", "raises"}]

\* wrapper has not been called: result = [None], exception = [None], no thread.
NoCall ==
    [pc |-> "idle", timeout |-> 0, fn |-> [delay |-> 0, kind |-> "returns"],
     thread |-> "none", result |-> None, exception |-> None,
     waited |-> 0, ran |-> 0, ret |-> None]

\* wrapper(*args): the cells are created and the daemon thread is started;
\* the caller enters thread.join(timeout=timeout_seconds).
WrapperCall(t, f) ==
    /\ call.pc = "idle"
    /\ call' = [call EXCEPT !.pc = "join", !.timeout = t, !.fn = f,
                            !.thread = "running"]
    /\ UNCHANGED <<sub, loads, lru>>
    /\ UNCHANGED <<jobVars, mgrVars, inferVars>>

\* target(): func returns or raises when its running time is over; the value
\* or the exception is stored in its cell and the thread ends.
TargetFinish ==
    /\ call.thread = "running"
    /\ call.ran = call.fn.delay
    /\ call' = [call EXCEPT
                  !.thread = "finished",
                  !.result = IF call.fn.kind = "returns"
                             THEN Some("completed") ELSE None,
                  !.exception = IF call.fn.kind = "raises"
                                THEN Some("boom") ELSE None]
    /\ UNCHANGED <<sub, loads, lru>>
    /\ UNCHANGED <<jobVars, mgrVars, inferVars>>

\* (Mutation of JoinOver: join() without a timeout.)
JoinOverWhenFinished == call.thread = "finished"

\* thread.join(timeout=timeout_seconds) returns when the thread has ended or
\* the timeout has elapsed.
JoinOver == call.thread = "finished" \/ call.waited >= call.timeout

JoinReturn ==
    /\ call.pc = "join"
    /\ JoinOver
    /\ call' = [call EXCEPT !.pc = "check"]
    /\ UNCHANGED <<sub, loads, lru>>
    /\ UNCHANGED <<jobVars, mgrVars, inferVars>>

\* What the wrapper hands to its caller.
Returned(v) == Some([kind |-> "return", value |-> v])
Reraised(e) == Some([kind |-> "raise", value |-> e])

\* if thread.is_alive(): return None; if exception[0]: raise exception[0];
\* return result[0]
CheckAlive ==
    /\ call.pc = "check"
    /\ call' = [call EXCEPT
                  !.pc = "returned",
                  !.ret = IF call.thread = "running" THEN Returned(None)
                          ELSE IF call.exception # None
                               THEN Reraised(call.exception[1])
                               ELSE Returned(call.result)]
    /\ UNCHANGED <<sub, loads, lru>>
    /\ UNCHANGED <<jobVars, mgrVars, inferVars>>

\* One tick passes: the function runs on while its time is not over, and the
\* caller waits on while its join is not over.
TickCall ==
    /\ call.pc \in {"join", "returned"}
    /\ call.thread = "running"
    /\ call.ran < call.fn.delay
    /\ call.pc = "join" => ~JoinOver
    /\ call' = [call EXCEPT
                  !.ran = @ + 1,
                  !.waited = IF call.pc = "join" THEN @ + 1 ELSE @]
    /\ UNCHANGED <<sub, loads, lru>>
    /\ UNCHANGED <<jobVars, mgrVars, inferVars>>

----------------------------------------------------------------------------
\* api/jobs.py create_job and api/batch.py LocateBatchImporter.create_job,
\* statement by statement.

NumHandlers == 2      \* creation requests in progress at the same time

Handlers == 1..NumHandlers

NoHandler == [pc |-> "idle", kind |-> "", id |-> 0, path |-> ""]

\* No creation is in progress; nothing was committed or enqueued.
NoSubmission ==
    [hs |-> [h \in Handlers |-> NoHandler],
     committed |-> {},
     enqueued |-> [j \in 1..MaxJobs |-> 0]]

\* job = Job(...); session.add(job): the file is in place and the row is
\* pending in the handler's session.
SubmitAdd(h, kind, c) ==
    /\ sub.hs[h].pc = "idle"
    /\ nextId <= MaxJobs
    /\ files' = files \cup {UploadPath(c)}
    /\ nextId' = nextId + 1
    /\ sub' = [sub EXCEPT !.hs[h] = [pc |-> "added", kind |-> kind,
                                     id |-> nextId, path |-> UploadPath(c)]]
    /\ UNCHANGED <<db, queue, resent, clock, pc, wjob, snap, cur, predictor>>
    /\ UNCHANGED <<call, loads, lru>>
    /\ UNCHANGED <<mgrVars, inferVars>>

\* await session.commit(): the pending row becomes visible.  The importer's
\* Job comes from models.database, so its insert may also be refused; the
\* handler then ends with the exception.
SubmitCommit(h) ==
    /\ sub.hs[h].pc = "added"
    /\ \E ok \in (IF sub.hs[h].kind = "batch" THEN BOOLEAN ELSE {TRUE}) :
        IF ok
        THEN /\ db' = [j \in DOMAIN db \cup {sub.hs[h].id} |->
                        IF j = sub.hs[h].id
                        THEN Job(sub.hs[h].path, PENDING) ELSE db[j]]
             /\ sub' = [sub EXCEPT !.hs[h].pc = "committed",
                                   !.committed = @ \cup {sub.hs[h].id}]
        ELSE /\ db' = db
             /\ sub' = [sub EXCEPT !.hs[h] = NoHandler]
    /\ UNCHANGED <<files, queue, nextId, resent, clock, pc, wjob, snap, cur,
                   predictor>>
    /\ UNCHANGED <<call, loads, lru>>
    /\ UNCHANGED <<mgrVars, inferVars>>

\* (Mutation of ReadyToEnqueue: the task is sent before the commit.)
ReadyToEnqueueEarly(h) == sub.hs[h].pc \in {"added", "committed"}

\* process_geolocation.delay(str(job.id)) follows the commit and the refresh.
ReadyToEnqueue(h) == sub.hs[h].pc = "committed"

\* process_geolocation.delay(str(job.id)); the handler returns.
SubmitEnqueue(h) ==
    /\ ReadyToEnqueue(h)
    /\ queue' = Append(queue, sub.hs[h].id)
    /\ sub' = [sub EXCEPT !.hs[h] = NoHandler,
                          !.enqueued[sub.hs[h].id] = @ + 1]
    /\ UNCHANGED <<db, files, nextId, resent, clock, pc, wjob, snap, cur,
                   predictor>>
    /\ UNCHANGED <<call, loads, lru>>
    /\ UNCHANGED <<mgrVars, inferVars>>

----------------------------------------------------------------------------
\* backend/main.py and backend/api_service.py: @lru_cache(maxsize=3)
\* get_predictor(device), called by the threads that serve /infer.

CacheSize == 3

Devices == {"auto", "cpu", "cuda", "rocm"}

\* _gpu_backend(): what the PyTorch build of the process drives.
Backends == {"none", "cuda", "rocm"}

\* select_device raises for a GPU kind the build does not drive.
SelectRaises(requested, backend) ==
    \/ requested = "cuda" /\ backend # "cuda"
    \/ requested = "rocm" /\ backend # "rocm"

NoCaller == [pc |-> "idle", device |-> ""]

\* The cache after import: empty, no call in progress, nothing built.
EmptyCache(backend) ==
    [backend |-> backend, cache |-> <<>>,
     tp |-> [t \in Threads |-> NoCaller],
     built |-> [d \in Devices |-> 0]]

NoCache == EmptyCache("none")

Without(seq, d) == SelectSeq(seq, LAMBDA x : x # d)

InCache(d) == \E i \in DOMAIN lru.cache : lru.cache[i] = d

\* get_predictor(device) enters the lru_cache wrapper: a hit moves the key to
\* the most recently used end and returns; a miss goes on to call the
\* function, with no lock held.
LruCall(t, d) ==
    /\ lru.tp[t].pc = "idle"
    /\ IF InCache(d)
       THEN lru' = [lru EXCEPT !.cache = Append(Without(lru.cache, d), d)]
       ELSE lru' = [lru EXCEPT !.tp[t] = [pc |-> "miss", device |-> d]]
    /\ UNCHANGED <<call, sub, loads>>
    /\ UNCHANGED <<jobVars, mgrVars, inferVars>>

\* GeoClipPredictor(device=device) returns or raises; an exception is not
\* cached.  On return the wrapper stores the result unless the key was added
\* meanwhile, dropping the least recently used key when the cache is full.
LruConstruct(t) ==
    /\ lru.tp[t].pc = "miss"
    /\ LET d == lru.tp[t].device IN
       \E ok \in (IF SelectRaises(d, lru.backend) THEN {FALSE} ELSE BOOLEAN) :
        IF ok
        THEN lru' = [lru EXCEPT
                       !.tp[t] = NoCaller,
                       !.built[d] = @ + 1,
                       !.cache = IF InCache(d) THEN @
                                 ELSE IF Len(@) >= CacheSize
                                      THEN Append(Tail(@), d)
                                      ELSE Append(@, d)]
        ELSE lru' = [lru EXCEPT !.tp[t] = NoCaller]
    /\ UNCHANGED <<call, sub, loads>>
    /\ UNCHANGED <<jobVars, mgrVars, inferVars>>

\* Nothing else is going on in the process.
NoExtras ==
    /\ call = NoCall
    /\ sub = NoSubmission
    /\ loads = [w \in Workers |-> 0]
    /\ lru = NoCache

\* No request is in the validation loop of the backend service.
NoValidation ==
    /\ items = <<>>
    /\ seen = 0
    /\ valid = <<>>
    /\ rpc = "none"
    /\ NoExtras

\* No /infer request is being served.
NoRequest ==
    /\ records = <<>>
    /\ skip = FALSE
    /\ outcomes = <<>>
    /\ answers = <<>>
    /\ NoValidation

\* The process after import of model_manager: _manager = None.
Init ==
    /\ InitJobs
    /\ InitThreads
    /\ NoRequest
    /\ manager = None
    /\ mgrs = <<>>
    /\ spc = <<>>
    /\ wake = <<>>
    /\ hist = <<>>

\* The process once get_model_manager() has constructed the singleton.
InitMgr ==
    /\ InitJobs
    /\ InitThreads
    /\ NoRequest
    /\ manager = Some(1)
    /\ mgrs = <<NewManager>>
    /\ spc = <<"start">>
    /\ wake = <<0>>
    /\ hist = <<NewHistory>>

\* The job queue: submissions, deletions, deliveries and the workers.
Next ==
    \/ \E c \in Contents : CreateJob(c)
    \/ \E j \in DOMAIN db : DeleteJob(j)
    \/ \E j \in 1..MaxJobs : Redeliver(j)
    \/ \E w \in Workers : Start(w)
    \/ \E w \in Workers : BeginProcessing(w)
    \/ \E w \in Workers : GetPredictor(w)
    \/ \E w \in Workers : Predict(w)
    \/ \E w \in Workers : LogAuditEvent(w)
    \/ \E w \in Workers : Finally(w)
    \/ \E w \in Workers : Kill(w)

Spec == Init /\ [][Next]_vars

\* The residency manager in service: caller threads, the cleanup thread and time.
NextMgr ==
    \/ \E t \in Threads, op \in {"get", "shutdown"} : Call(t, op)
    \/ \E t \in Threads : GmmReturn(t)
    \/ \E t \in Threads : Enter(t)
    \/ \E t \in Threads : Construct(t)
    \/ \E t \in Threads : Return(t)
    \/ \E t \in Threads : Release(t)
    \/ \E t \in Threads : ShutdownStop(t)
    \/ \E t \in Threads : ShutdownUnload(t)
    \/ \E m \in Managers : SweepLoop(m)
    \/ \E m \in Managers : CheckTimeout(m)
    \/ Tick

SpecMgr == InitMgr /\ [][NextMgr]_vars

\* Start-up: the first calls of get_predictor() race through get_model_manager().
NextBoot ==
    \/ \E t \in Threads : Call(t, "get")
    \/ \E t \in Threads : GmmMake(t)
    \/ \E t \in Threads : GmmReturn(t)
    \/ \E t \in Threads : Enter(t)
    \/ \E t \in Threads : Construct(t)
    \/ \E t \in Threads : Return(t)
    \/ \E t \in Threads : Release(t)
    \/ \E m \in Managers : SweepLoop(m)

SpecBoot == Init /\ [][NextBoot]_vars

\* The /infer endpoint has built the records of a request; some of the files
\* named exist.
InitInfer ==
    /\ db = <<>>
    /\ files \in SUBSET Paths
    /\ queue = <<>>
    /\ nextId = 1
    /\ resent = 0
    /\ clock = 1
    /\ pc = [w \in Workers |-> "idle"]
    /\ wjob = [w \in Workers |-> 0]
    /\ snap = [w \in Workers |-> NoRow]
    /\ cur = [w \in Workers |-> NoRow]
    /\ predictor = [w \in Workers |-> None]
    /\ InitThreads
    /\ manager = None
    /\ mgrs = <<>>
    /\ spc = <<>>
    /\ wake = <<>>
    /\ hist = <<>>
    /\ \E paths \in Requests : records = RequestRecords(paths)
    /\ skip \in BOOLEAN
    /\ outcomes = <<>>
    /\ answers = <<>>
    /\ NoValidation

NextInfer == PredictRecord

SpecInfer == InitInfer /\ [][NextInfer]_vars

\* list(...) keeps asking the generator for the next outcome until it is exhausted.
SpecInferFair == SpecInfer /\ WF_vars(NextInfer)

\* The backend service has received a request; some of the files named exist.
InitService ==
    /\ db = <<>>
    /\ files \in SUBSET ItemPaths
    /\ queue = <<>>
    /\ nextId = 1
    /\ resent = 0
    /\ clock = 1
    /\ pc = [w \in Workers |-> "idle"]
    /\ wjob = [w \in Workers |-> 0]
    /\ snap = [w \in Workers |-> NoRow]
    /\ cur = [w \in Workers |-> NoRow]
    /\ predictor = [w \in Workers |-> None]
    /\ InitThreads
    /\ manager = None
    /\ mgrs = <<>>
    /\ spc = <<>>
    /\ wake = <<>>
    /\ hist = <<>>
    /\ records = <<>>
    /\ skip \in BOOLEAN
    /\ outcomes = <<>>
    /\ answers = <<>>
    /\ items \in ServiceRequests
    /\ seen = 0
    /\ valid = <<>>
    /\ rpc = "validate"
    /\ NoExtras

NextService ==
    \/ ValidateItem
    \/ BuildRecords
    \/ PredictRecord
    \/ Respond

SpecService == InitService /\ [][NextService]_vars

\* Creation requests, deletions and the workers picking tasks up.
NextSubmit ==
    \/ \E h \in Handlers, kind \in {"http", "batch"}, c \in Contents :
            SubmitAdd(h, kind, c)
    \/ \E h \in Handlers : SubmitCommit(h)
    \/ \E h \in Handlers : SubmitEnqueue(h)
    \/ \E j \in DOMAIN db : DeleteJob(j)
    \/ \E w \in Workers : Start(w)

SpecSubmit == Init /\ [][NextSubmit]_vars

\* The /infer service after import, on some PyTorch build.
InitLru ==
    /\ InitJobs
    /\ InitThreads
    /\ manager = None
    /\ mgrs = <<>>
    /\ spc = <<>>
    /\ wake = <<>>
    /\ hist = <<>>
    /\ records = <<>>
    /\ skip = FALSE
    /\ outcomes = <<>>
    /\ answers = <<>>
    /\ items = <<>>
    /\ seen = 0
    /\ valid = <<>>
    /\ rpc = "none"
    /\ call = NoCall
    /\ sub = NoSubmission
    /\ loads = [w \in Workers |-> 0]
    /\ \E b \in Backends : lru = EmptyCache(b)

NextLru ==
    \/ \E t \in Threads, d \in Devices : LruCall(t, d)
    \/ \E t \in Threads : LruConstruct(t)

SpecLru == InitLru /\ [][NextLru]_vars

\* One call of a function wrapped by with_timeout.
InitCall ==
    /\ InitJobs
    /\ InitThreads
    /\ NoRequest
    /\ manager = None
    /\ mgrs = <<>>
    /\ spc = <<>>
    /\ wake = <<>>
    /\ hist = <<>>

NextCall ==
    \/ \E t \in 1..MaxTimeout, f \in Functions : WrapperCall(t, f)
    \/ TargetFinish
    \/ JoinReturn
    \/ CheckAlive
    \/ TickCall

SpecCall == InitCall /\ [][NextCall]_vars

----------------------------------------------------------------------------
\* Properties of the job state machine (Spec).

Allowed(a, b) ==
    \/ a = b
    \/ a = PENDING
    \/ a = PROCESSING /\ b \in Terminal

(* C1: for every job the persisted status only moves along
   pending -> processing -> completed or pending -> processing -> failed,
   whatever tasks are delivered; it never regresses. *)
C1_StatusNeverRegresses ==
    [][\A j \in DOMAIN db \cap DOMAIN db' : Allowed(db[j].status, db'[j].status)]_vars

(* C6: in every committed state of a job, started_at is set iff the status is
   processing, completed or failed, and completed_at is set iff the status is
   completed or failed. *)
C6_TimestampsMatchStatus ==
    \A j \in DOMAIN db :
        /\ IsSet(db[j].started_at) <=> db[j].status \in {PROCESSING, COMPLETED, FAILED}
        /\ IsSet(db[j].completed_at) <=> db[j].status \in Terminal

(* C7: in every committed state of a job, results is non-null iff the status is
   completed and error is non-null iff the status is failed. *)
C7_PayloadMatchesStatus ==
    \A j \in DOMAIN db :
        /\ IsSet(db[j].results) <=> db[j].status = COMPLETED
        /\ IsSet(db[j].error) <=> db[j].status = FAILED

\* Worker w runs the prediction for its job (lines 72-116 of the task).
PredictStep(w) == pc[w] = "predict" /\ pc'[w] = "audit"

(* C8: when a job is processed and the file at its file_path does not exist, the
   job is left failed with null results and an error text that carries the
   missing-file indication of that record. *)
C8_MissingFileIsReported ==
    [][\A w \in Workers :
        PredictStep(w) /\ cur[w].file_path \notin files
            => /\ cur'[w].status = FAILED
               /\ cur'[w].results = None
               /\ cur'[w].error = Some(MissingFileMsg(cur[w].file_path))]_vars

(* C9: once a task invocation has committed processing, it ends with completed
   or failed committed for its job, on every path: success, empty predictions,
   and any exception or interruption during acquisition or inference. *)
C9_RunsToTerminal ==
    [][\A w \in Workers :
        /\ pc[w] \in {"acquire", "predict", "audit", "finally"}
        /\ pc'[w] = "idle"
        /\ wjob[w] \in DOMAIN db'
        => db'[wjob[w]].status \in Terminal]_vars

(* C10: every transition is committed before the next step begins: while a
   worker acquires the engine or runs inference its job is durably past
   pending with started_at set, and the commit that makes a job completed or
   failed stamps its completed_at in the same commit. *)
C10_TransitionsCommittedInOrder ==
    /\ [](\A w \in Workers :
            pc[w] \in {"acquire", "predict"} /\ wjob[w] \in DOMAIN db
                => /\ db[wjob[w]].status # PENDING
                   /\ IsSet(db[wjob[w]].started_at))
    /\ [][\A j \in DOMAIN db \cap DOMAIN db' :
            db[j].status \notin Terminal /\ db'[j].status \in Terminal
                => /\ IsSet(db'[j].completed_at)
                   /\ db'[j].completed_at # db[j].completed_at]_vars

----------------------------------------------------------------------------
\* Properties of the residency manager (SpecBoot, SpecMgr).

(* C2: at most one engine is live in the process at any time, under any
   interleaving of callers of get_predictor(), the sweep and callers that
   still use a handle. *)
C2_AtMostOneLiveEngine == Cardinality(LiveEngines) <= 1

(* C3: calls of get_predictor() on one manager that each come within
   idle_timeout of the previous one construct the engine at most once,
   with sweeps interleaved anywhere.  hist[m].built counts the successful
   constructions of the current run of such calls: Enter starts a new run when
   the call comes later than idle_timeout after the previous one, and an
   explicit shutdown() ends the run. *)
C3_ConstructedOncePerWindow == \A m \in Managers : hist[m].built <= 1

\* Two calls shared one construction although a sweep ran after the first.
C3_Witness ==
    /\ \A t \in Threads : tpc[t] = "using" /\ handle[t] = mgrs[1].predictor
    /\ hist[1].built = 1
    /\ hist[1].swept
    /\ now > 1

\* Thread t enters get_predictor on its manager.
EnterStep(t) == tpc[t] = "enter" /\ tpc'[t] \in {"construct", "return"}

\* The last call on m left an engine resident and the idle window has elapsed since.
IdleSinceLoaded(m) ==
    /\ hist[m].loaded
    /\ hist[m].prevStamp > 0
    /\ now - hist[m].prevStamp > IdleTimeout

(* C4 as claimed: after an engine has been resident and more than idle_timeout has
   passed since the last get_predictor(), the next get_predictor() reconstructs
   the engine, whenever the sweep runs. *)
C4_AlwaysReconstructsAfterIdle ==
    [][\A t \in Threads :
        EnterStep(t) /\ IdleSinceLoaded(tmgr[t]) => tpc'[t] = "construct"]_vars

(* C4 as amended: after an engine has been resident and more than idle_timeout has
   passed since the last get_predictor(), the next get_predictor() constructs
   (once) exactly when the engine has been evicted in the meantime, by a sweep
   that ran after the window elapsed or by shutdown(); a call that comes before
   the sweep is handed the engine still resident. *)
C4_ReconstructsIffSwept ==
    [][\A t \in Threads :
        EnterStep(t) /\ IdleSinceLoaded(tmgr[t])
            => (tpc'[t] = "construct" <=> hist[tmgr[t]].evicted)]_vars

\* A call that found the engine evicted after an idle window is constructing.
C4_Witness ==
    \E t \in Threads :
        /\ tpc[t] = "construct"
        /\ hist[tmgr[t]].idled /\ hist[tmgr[t]].loaded /\ hist[tmgr[t]].evicted

\* Thread t is between the refresh of _last_used and the end of the with block.
InGetPredictor(t) == tpc[t] \in {"construct", "return"}
SweepStep(m) == spc[m] = "sleep" /\ spc'[m] = "loop"
ReturnStep(t) == tpc[t] = "return" /\ tpc'[t] = "using"

(* C5: get_predictor refreshes last_used under the lock and keeps the lock until
   it returns; no sweep runs in between; the engine handed out is the resident
   one at that moment; and a sweep within idle_timeout of the acquisition does
   not evict it. *)
C5_SweepNeverRacesAcquire ==
    /\ [](\A t \in Threads : InGetPredictor(t) =>
            /\ mgrs[tmgr[t]].lock = t
            /\ mgrs[tmgr[t]].last_used = hist[tmgr[t]].prevStamp
            /\ mgrs[tmgr[t]].last_used > 0)
    /\ [][\A t \in Threads :
            /\ EnterStep(t) => mgrs'[tmgr[t]].last_used = now
            /\ ReturnStep(t) =>
                /\ handle'[t] # None
                /\ handle'[t] = mgrs[tmgr[t]].predictor
                /\ handle'[t] = mgrs'[tmgr[t]].predictor]_vars
    /\ [][\A m \in Managers :
            SweepStep(m) =>
                /\ \A t \in Threads : ~(InGetPredictor(t) /\ tmgr[t] = m)
                /\ (hist[m].prevStamp > 0 /\ now - hist[m].prevStamp <= IdleTimeout
                        => mgrs'[m].predictor = mgrs[m].predictor)]_vars

\* A caller uses the resident engine after a sweep ran within the idle window.
C5_Witness ==
    \E t \in Threads :
        /\ tpc[t] = "using"
        /\ handle[t] # None
        /\ handle[t] = mgrs[1].predictor
        /\ hist[1].swept
        /\ now > hist[1].prevStamp
        /\ now - hist[1].prevStamp <= IdleTimeout

\* Thread t's construction raises out of get_predictor.
ConstructFails(t) == tpc[t] = "construct" /\ tpc'[t] = "idle"

(* C11: when engine construction raises inside get_predictor(), the caller gets
   the exception and no engine, the lock is released and the manager is left as
   a manager that never loaded (engine absent; only the _last_used stamp
   differs); the next get_predictor() that finds the engine absent constructs
   again. *)
C11_FailedConstructionLeavesNoPoison ==
    /\ [][\A t \in Threads :
            ConstructFails(t) =>
                /\ handle'[t] = None
                /\ mgrs'[tmgr[t]] =
                      [NewManager EXCEPT !.last_used = mgrs[tmgr[t]].last_used,
                                         !.running = mgrs[tmgr[t]].running]]_vars
    /\ [][\A t \in Threads :
            EnterStep(t) /\ mgrs[tmgr[t]].predictor = None
                => tpc'[t] = "construct"]_vars
    /\ [](\A t \in Threads :
            tpc[t] = "construct" =>
                mgrs[tmgr[t]].lock = t /\ mgrs[tmgr[t]].predictor = None)

\* A caller uses an engine that was constructed after a construction had failed.
C11_Witness ==
    \E t \in Threads :
        /\ tpc[t] = "using"
        /\ handle[t] # None
        /\ handle[t] = mgrs[1].predictor
        /\ hist[1].failed

\* Thread t returns from shutdown().
ShutdownReturns(t) == tpc[t] = "stopped" /\ tpc'[t] = "idle"

\* Some shutdown() of m has returned and none is still running.
ShutDown(m) ==
    /\ ~mgrs[m].running
    /\ \A t \in Threads : ~(tpc[t] = "stopped" /\ tmgr[t] = m)

(* C12: when shutdown() returns no engine is resident, and from then on the
   cleanup loop makes no further _check_timeout call. *)
C12_NoSweepAfterShutdown ==
    /\ [][\A t \in Threads :
            ShutdownReturns(t) => mgrs'[tmgr[t]].predictor = None]_vars
    /\ [][\A m \in Managers : SweepStep(m) => ~ShutDown(m)]_vars

(* C13: a sweep evicts the engine exactly when one is resident and
   now - last_used exceeds idle_timeout; otherwise it leaves the engine and
   last_used as they are (so a sweep after an eviction changes nothing); after
   an eviction is_loaded is false and the next get_predictor() constructs. *)
C13_SweepEvictsExactlyWhenExpired ==
    /\ [][\A m \in Managers :
            SweepStep(m) =>
                IF mgrs[m].predictor # None /\ now - mgrs[m].last_used > IdleTimeout
                THEN mgrs'[m].predictor = None
                ELSE /\ mgrs'[m].predictor = mgrs[m].predictor
                     /\ mgrs'[m].last_used = mgrs[m].last_used]_vars
    /\ [][\A t \in Threads :
            EnterStep(t) /\ hist[tmgr[t]].evicted => tpc'[t] = "construct"]_vars

\* The sweep has evicted an engine that was acquired more than idle_timeout ago.
C13_Witness ==
    /\ mgrs[1].running
    /\ mgrs[1].predictor = None
    /\ hist[1].loaded /\ hist[1].evicted /\ hist[1].swept
    /\ now - hist[1].prevStamp > IdleTimeout

\* Eviction of m's engine, by the sweep or by shutdown().
Evicts(m) == mgrs[m].predictor # None /\ mgrs'[m].predictor = None

(* C14: on one manager at most one construction is in progress at a time, no
   caller enters get_predictor and no eviction happens while one is in
   progress, and a caller that arrived during a construction which completed
   is handed that same engine without constructing again. *)
C14_ConstructionIsAtomic ==
    /\ [](\A m \in Managers :
            Cardinality({t \in Threads : tpc[t] = "construct" /\ tmgr[t] = m}) <= 1)
    /\ [][\A t \in Threads :
            EnterStep(t) => ~Constructing(tmgr[t])]_vars
    /\ [][\A m \in Managers : Evicts(m) => ~Constructing(m)]_vars
    /\ [][\A t \in Threads :
            EnterStep(t) /\ hist[tmgr[t]].await[t] > 0 /\ mgrs[tmgr[t]].running
                => /\ tpc'[t] = "return"
                   /\ mgrs[tmgr[t]].predictor = Some(hist[tmgr[t]].await[t])]_vars

----------------------------------------------------------------------------
\* Further properties of the job state machine (Spec).

\* Worker w is inside an invocation of the task for job j.
Active(w, j) == pc[w] # "idle" /\ wjob[w] = j

(* C15: a job record has a single writer: at most one invocation of the task
   is active for a job id at any time, and until the job is terminal nothing
   but that invocation writes or removes its record (no delete_job, no second
   delivery). *)
C15_SingleWriterPerJob ==
    /\ [](\A j \in 1..MaxJobs :
            Cardinality({w \in Workers : Active(w, j)}) <= 1)
    /\ [][\A j \in DOMAIN db :
            db[j].status \notin Terminal => j \in DOMAIN db']_vars
    /\ [][\A j \in DOMAIN db \cap DOMAIN db' :
            db'[j] # db[j] =>
                \E w \in Workers :
                    /\ Active(w, j)
                    /\ \A v \in Workers \ {w} : ~Active(v, j)]_vars

(* C16: every job has a file of its own: no two job records hold the same
   file_path, and delete_job never removes a file that another job which is
   still pending or processing refers to. *)
C16_ExclusiveFileOwnership ==
    /\ [](\A j, k \in DOMAIN db : j # k => db[j].file_path # db[k].file_path)
    /\ [][\A k \in DOMAIN db \cap DOMAIN db' :
            db[k].status \notin Terminal /\ db[k].file_path \in files
                => db[k].file_path \in files']_vars

\* A task is taken off the queue for a job id that has no record.
OrphanDelivery ==
    /\ queue # <<>>
    /\ queue' = Tail(queue)
    /\ Head(queue) \notin DOMAIN db

(* C17: process_geolocation for a job id without a record returns at once: no
   job row is created, changed or committed, no worker holds a session row or
   moves into processing, no engine is acquired and no failure is recorded. *)
C17_MissingRecordIsNoOp ==
    [][OrphanDelivery =>
        UNCHANGED <<db, files, clock, pc, wjob, snap, cur, predictor>>]_vars

\* Every task delivered so far found no record: the jobs were deleted first, and
\* no invocation ever reached the processing commit.
C17_Witness ==
    /\ nextId > 1
    /\ db = <<>>
    /\ queue = <<>>
    /\ clock = 1
    /\ \A w \in Workers : pc[w] = "idle"

\* Worker w's invocation ends (the commit of the finally block), after the
\* acquisition of the engine raised in it.
EndsAfterFailedAcquire(w) ==
    /\ pc[w] = "finally" /\ pc'[w] = "idle"
    /\ cur[w].status = FAILED
    /\ cur[w].error = Some(ConstructionErrorMsg)

(* C18: when acquiring the engine raises while a job is processed, the
   invocation ends with the job committed as failed, error set to the message
   of the exception, completed_at stamped and results null. *)
C18_AcquireFailureFailsJob ==
    [][\A w \in Workers :
        EndsAfterFailedAcquire(w) /\ wjob[w] \in DOMAIN db'
            => /\ db'[wjob[w]].status = FAILED
               /\ db'[wjob[w]].error = Some(ConstructionErrorMsg)
               /\ IsSet(db'[wjob[w]].completed_at)
               /\ db'[wjob[w]].results = None]_vars

\* The texts of the exceptions the call into the engine can raise or report.
RawExceptionTexts == {AttributeErrorMsg, EngineErrorMsg, PredictionFailedMsg}

(* C19: when the inference call fails while a job is processed, the job is
   failed with a generic error text: the text of the exception never becomes
   the job's error. *)
C19_InferenceErrorIsSanitized ==
    [][\A w \in Workers :
        PredictStep(w) /\ cur'[w].status = FAILED
            => \A raw \in RawExceptionTexts : cur'[w].error # Some(raw)]_vars

----------------------------------------------------------------------------
\* Properties of the predictions (SpecInfer).

\* Sequence p is non-increasing.
NonIncreasing(p) == \A a, b \in DOMAIN p : a < b => p[a] >= p[b]

(* C20: the results stored for a completed job (the serialised predictions of
   an outcome that has predictions, the only case in which the task completes
   a job) are non-empty, the i-th element has rank i, and the elements are the
   engine's candidates in the engine's order, so the probabilities are
   non-increasing whenever the engine's were. *)
C20_RanksFollowEngineOrder ==
    \A i \in DOMAIN outcomes :
        outcomes[i].predictions # <<>> =>
            LET results == Serialised(outcomes[i].predictions)
                eng == answers[i][1]
            IN  /\ Len(results) >= 1
                /\ Len(results) <= Len(eng.gps)
                /\ \A k \in DOMAIN results :
                    /\ results[k].rank = k
                    /\ results[k].latitude = eng.gps[k][1]
                    /\ results[k].longitude = eng.gps[k][2]
                    /\ results[k].probability = eng.probs[k]
                /\ NonIncreasing(eng.probs)
                    => NonIncreasing([k \in DOMAIN results |-> results[k].probability])

\* Two candidates were returned with rising probabilities and kept in that order.
C20_Witness ==
    \E i \in DOMAIN outcomes :
        /\ Len(outcomes[i].predictions) = 2
        /\ answers[i] # None
        /\ ~NonIncreasing(answers[i][1].probs)
        /\ outcomes[i].predictions[1].rank = 1
        /\ outcomes[i].predictions[2].rank = 2

(* C21: predict_records yields exactly one outcome per record, in input order:
   each step adds one outcome, the i-th outcome is that of the i-th record, and
   whatever the earlier outcomes were (missing file, engine exception, no
   prediction) the batch runs until every record has its outcome. *)
C21_OneOutcomePerRecordInOrder ==
    /\ [](/\ Len(outcomes) <= Len(records)
          /\ \A i \in DOMAIN outcomes : outcomes[i].record = records[i])
    /\ [][/\ Len(outcomes') = Len(outcomes) + 1
          /\ SubSeq(outcomes', 1, Len(outcomes)) = outcomes]_vars
    /\ <>[](Len(outcomes) = Len(records))

\* The first record failed and a later record still succeeded.
C21_Witness ==
    /\ Len(outcomes) = Len(records)
    /\ Len(outcomes) >= 2
    /\ outcomes[1].error # None
    /\ outcomes[Len(outcomes)].predictions # <<>>

\* An outcome that only carries a warning.
WarningOnly(o) == o.warnings # <<>> /\ o.error = None /\ o.predictions = <<>>

(* C22: with skip_missing enabled, the outcomes that carry a warning, no error
   and no predictions are exactly those of the records whose file is missing
   (M of them among K records), and the engine is asked once for each of the
   other records and for none of the missing ones. *)
C22_SkippedAreExactlyTheMissing ==
    skip =>
        /\ Len(answers) = Len(outcomes)
        /\ \A i \in DOMAIN outcomes :
            /\ WarningOnly(outcomes[i]) <=> records[i].path \notin files
            /\ answers[i] # None <=> records[i].path \in files
        /\ Cardinality({i \in DOMAIN outcomes : WarningOnly(outcomes[i])})
             = Cardinality({i \in DOMAIN outcomes : records[i].path \notin files})

\* A finished batch of two records, one of them missing and skipped.
C22_Witness ==
    /\ skip
    /\ Len(records) = 2 /\ Len(outcomes) = 2
    /\ Cardinality({i \in DOMAIN outcomes : WarningOnly(outcomes[i])}) = 1
    /\ Cardinality({i \in DOMAIN answers : answers[i] # None}) = 1

----------------------------------------------------------------------------
\* Properties of the backend service's /infer handler (SpecService).

Invalid(i) == ~ValidImage(items[i], files)

\* C23: without skip_missing the first invalid item ends the request at once
\* (every item before it was valid, none after it is consumed, no record is
\* built and the engine is never asked); with skip_missing the invalid items
\* are dropped and exactly the remaining ones are predicted, in order.
C23_FailFastOrDrop ==
    /\ [](~skip =>
            /\ \A i \in 1..seen : Invalid(i) => (i = seen /\ rpc = "rejected")
            /\ rpc = "rejected" =>
                  (records = <<>> /\ outcomes = <<>> /\ answers = <<>>))
    /\ [][rpc = "rejected" => seen' = seen]_vars
    /\ [](skip =>
            /\ valid = SelectSeq(SubSeq(items, 1, seen),
                                 LAMBDA p : ValidImage(p, files))
            /\ rpc \in {"predict", "done"} =>
                  (seen = Len(items) /\ records = RequestRecords(valid))
            /\ rpc = "done" => Len(outcomes) = Len(valid))

C23_Witness ==
    /\ ~skip
    /\ rpc = "rejected"
    /\ seen < Len(items)
    /\ Invalid(seen)

----------------------------------------------------------------------------
\* Properties of the place resolver's use by the worker (Spec).

\* Whatever the engine answers for an existing file, a resolver that raises
\* or finds nothing yields the same number of candidates, all with blank
\* place fields and an empty location_summary.
BlankOnResolverFailure ==
    \A eng \in EngineOutputs, geo \in ResolverOutputs, p \in Paths :
        (geo.raises \/ geo.place = NoPlace) =>
            LET record == RequestRecords(<<p>>)[1]
                o == RecordOutcome(record, {p}, FALSE, eng, geo)
                ok == RecordOutcome(record, {p}, FALSE, eng,
                                    [raises |-> FALSE, place |-> Paris])
            IN  /\ ~o.raised
                /\ o.error = ok.error
                /\ Len(o.predictions) = Len(ok.predictions)
                /\ \A i \in DOMAIN o.predictions :
                    /\ o.predictions[i].city = ""
                    /\ o.predictions[i].state = ""
                    /\ o.predictions[i].county = ""
                    /\ o.predictions[i].country = ""
                    /\ location_summary(o.predictions[i]) = ""

(* C24: a resolver failure or empty resolver result never fails a record or a
   job: the candidates keep blank place fields and an empty location_summary,
   and the inference step of a job whose file exists leaves the job completed
   unless the engine itself gave no candidates. *)
C24_ResolverNeverFailsJob ==
    /\ BlankOnResolverFailure
    /\ [][\A w \in Workers :
            PredictStep(w) /\ cur[w].file_path \in files
                => \/ cur'[w].status = COMPLETED
                   \/ cur'[w].error = Some(NoPredictionsMsg)]_vars

----------------------------------------------------------------------------
\* Properties of the worker's engine cache (Spec).

AcquireStep(w) == pc[w] = "acquire" /\ pc'[w] = "predict"

(* C25: the worker obtains its engine through the residency manager: when a
   job has acquired its engine, the manager exists, holds the engine and has
   had its last-use time refreshed by that acquisition. *)
C25_WorkerUsesManager ==
    [][\A w \in Workers :
        AcquireStep(w)
            => /\ manager' # None
               /\ mgrs'[manager'[1]].predictor # None
               /\ mgrs'[manager'[1]].last_used = now']_vars

----------------------------------------------------------------------------
\* Properties of with_timeout (SpecCall).

(* C26: a call through with_timeout(t) hands back the function's value when
   the function finished within t, None when the function is still running
   after t, and the function's exception when it raised within t; the caller
   never waits longer than t. *)
C26_TimeoutWrapper ==
    /\ call.waited <= call.timeout
    /\ call.pc = "returned" =>
        /\ call.fn.delay < call.timeout /\ call.fn.kind = "returns"
              => call.ret = Returned(Some("completed"))
        /\ call.fn.delay < call.timeout /\ call.fn.kind = "raises"
              => call.ret = Reraised("boom")
        /\ call.fn.delay > call.timeout
              => call.ret = Returned(None) /\ call.waited = call.timeout

C26_Witness ==
    /\ call.pc = "returned"
    /\ call.thread = "running"
    /\ call.fn.delay > call.timeout
    /\ call.ret = Returned(None)

----------------------------------------------------------------------------
\* Properties of job creation (SpecSubmit).

InProgress(j) == \E h \in Handlers : sub.hs[h].pc # "idle" /\ sub.hs[h].id = j

(* C27: job creation commits the pending record before it enqueues the task
   and enqueues each id once: every id in the queue and every id a worker
   picks up was committed before, a record appears in status pending, no id is
   enqueued twice, and a creation that has returned after its commit has
   enqueued its id exactly once. *)
C27_CommitBeforeEnqueue ==
    /\ [](\A i \in DOMAIN queue : queue[i] \in sub.committed)
    /\ [](\A j \in 1..MaxJobs :
            /\ sub.enqueued[j] <= 1
            /\ sub.enqueued[j] = 1 => j \in sub.committed
            /\ (j \in sub.committed /\ ~InProgress(j)) => sub.enqueued[j] = 1)
    /\ [][/\ \A j \in DOMAIN db' \ DOMAIN db : db'[j].status = PENDING
          /\ \A w \in Workers :
                (pc[w] = "idle" /\ pc'[w] = "begin")
                    => wjob'[w] \in sub.committed]_vars

C27_Witness ==
    \E w \in Workers :
        /\ pc[w] = "begin"
        /\ sub.enqueued[wjob[w]] = 1
        /\ \E h \in Handlers : sub.hs[h].pc = "committed"

----------------------------------------------------------------------------
\* Properties of the outcomes of predict_records (SpecInfer).

IsSuccess(o) == o.error = None /\ o.predictions # <<>>
IsSkipped(o) == o.warnings # <<>> /\ o.error = None /\ o.predictions = <<>>
IsErrored(o) == o.error # None /\ o.predictions = <<>>

(* C28: every outcome emitted by predict_records is a success (no error, some
   predictions), skipped (a warning, no error, no predictions) or errored (an
   error, no predictions), and exactly one of these, whatever the engine
   answers, lists of different lengths included. *)
C28_OutcomeIsOneOfThreeKinds ==
    \A i \in DOMAIN outcomes :
        LET o == outcomes[i] IN
        /\ IsSuccess(o) \/ IsSkipped(o) \/ IsErrored(o)
        /\ ~(IsSuccess(o) /\ IsSkipped(o))
        /\ ~(IsSuccess(o) /\ IsErrored(o))
        /\ ~(IsSkipped(o) /\ IsErrored(o))

----------------------------------------------------------------------------
\* Properties of the worker's engine cache (Spec), continued.

(* C29: in a worker process the engine is built at most once: after a
   successful construction the cached engine is kept and reused until the
   process is replaced, and a construction that raises leaves the cache empty
   so that the next job constructs again. *)
C29_WorkerBuildsOnce ==
    /\ [](\A w \in Workers :
            /\ loads[w] <= 1
            /\ loads[w] = 1 <=> predictor[w] # None)
    /\ [][\A w \in Workers :
            /\ predictor[w] # None
                => \/ predictor'[w] = predictor[w] /\ loads'[w] = loads[w]
                   \/ /\ pc[w] \in {"acquire", "predict"}
                      /\ pc'[w] = "idle"
                      /\ loads'[w] = 0
            /\ (pc[w] = "acquire" /\ pc'[w] = "audit")
                => predictor'[w] = None /\ loads'[w] = 0]_vars

\* Two deliveries in all, both taken by the same worker process: the first
\* job went through inference, and the second has acquired the engine that
\* was built for the first.
C29_Witness ==
    \E w \in Workers :
        /\ pc[w] = "predict"
        /\ loads[w] = 1
        /\ \A v \in Workers \ {w} : loads[v] = 0
        /\ resent = 0
        /\ queue = <<>>
        /\ \E j \in DOMAIN db :
            /\ j # wjob[w]
            /\ db[j].status = FAILED
            /\ db[j].error = Some(AttributeErrorMsg)

----------------------------------------------------------------------------
\* Properties of the /infer service's predictor cache (SpecLru).

(* C30: in the /infer service each device choice's predictor is successfully
   constructed at most once per process, for any sequence and interleaving of
   requests. *)
C30_OneConstructionPerDevice ==
    \A d \in Devices : lru.built[d] <= 1

====
